---- MODULE Spec2Model ----
(***************************************************************************)
(* A model of sondra's document runtime: Document and Collection           *)
(* (sondra/document/__init__.py, sondra/collection/__init__.py) over a     *)
(* key/value table, and the Suite / Application registries and the         *)
(* reference helpers of sondra/document.py.                                *)
(*                                                                         *)
(* Values are tuples of strings.  A Python str is <<"str", s1, .., sn>>:   *)
(* the segments s1..sn joined by "/", so that '/'.join is concatenation    *)
(* of segments.  <<>> marks a property that is not in a mapping.           *)
(***************************************************************************)
EXTENDS Integers, Sequences, FiniteSets, TLC

\* Document objects the caller holds at once.
MaxDocs == 2
\* Keys the store generates for rows inserted without a primary key.
MaxGen == 1
\* Operations the callers perform in one run.
MaxOps == 4
\* Concrete Suite classes declared besides Suite itself.
MaxSuiteClasses == 2
\* Document classes declared besides Document itself.
MaxClasses == 2
\* Class statements of Document and Collection classes in one run.
MaxStatements == 3
\* Conversions applied to one value in a row.
MaxConversions == 3

VARIABLES
    store,      \* the collection's table: key -> row (NoRow when absent)
    genCount,   \* how many keys the store has generated so far
    docs,       \* the Document objects: slot -> [live, obj, saved, url, deleted]
    result,     \* what the last operation was, got and returned
    ops,        \* how many operations have been performed
    suite,      \* Suite.instance, the Suite objects constructed, the concrete classes
    applications, \* Suite.applications: slug -> Application object (0: not registered)
    apps,       \* the Application objects constructed, in order
    classes,    \* the Document and Collection classes declared, the collection registry
    conv,       \* a value handler, the value given to it and what its conversions made of it
    tables      \* the store's tables and indexes: collection -> [exists, indexes]

vars == <<store, genCount, docs, result, ops, suite, applications, apps, classes, conv, tables>>
docVars == <<store, genCount, docs>>
suiteVars == <<suite, applications, apps>>
classVars == <<classes, conv, tables>>

-----------------------------------------------------------------------------
\* Values

Str(x) == <<"str", x>>
None == <<"none">>
Absent == <<>>
Num(x) == <<"int", x>>
\* A geometry in one of its three shapes: "shape" (shapely object), "json"
\* (GeoJSON mapping), "rql" (r.geojson term / stored GEOMETRY pseudo-type).
Geo(form, type) == <<"geo", form, type>>

IsStr(v) == Len(v) >= 1 /\ v[1] = "str"
IsGeo(v) == Len(v) = 3 /\ v[1] = "geo"

\* Python truthiness of a key-like value: None and "" are false.
Truthy(v) == v # None /\ v # Str("")

\* '/'.join((a, b)) of two strings.
Join(a, b) == a \o Tail(b)

Props == {"sku", "name", "ref", "loc"}
primary_key == "sku"

base_url == Str("http://localhost:8000")
app_url == Join(base_url, Str("my-app"))
collection_url == Join(app_url, Str("coll"))

EmptyObj == [p \in Props |-> Absent]
NoRow == EmptyObj

Mk(sku, name, loc) ==
    [p \in Props |-> CASE p = "sku" -> sku
                       [] p = "name" -> name
                       [] p = "loc" -> loc
                       [] OTHER -> Absent]

GenKey(i) == Str("gen" \o ToString(i))
UserKeys == {Str("A1"), Str("A2")}
Keys == UserKeys \cup {GenKey(i) : i \in 1..MaxGen}

\* The mappings callers construct documents from.
Widget(k) == Mk(k, Str("Widget"), Absent)
Inputs ==
    {Widget(k) : k \in UserKeys}
    \cup {Mk(Absent, Str("Widget"), Absent),               \* no primary key
          Mk(Str("A1"), Num("7"), Absent),                  \* name is no string
          Mk(Str("A2"), Str("Widget"), Geo("json", "Polygon")),
          Mk(Str("A2"), Str("Widget"), Geo("json", "Point"))}

-----------------------------------------------------------------------------
\* The special-value handler of property "loc": Geometry("Point").

specials == {"loc"}
allowed_types == {"point"}
Lower(t) ==
    CASE t = "Point" -> "point" [] t = "Polygon" -> "polygon"
      [] t = "LineString" -> "linestring" [] OTHER -> t

\* Geometry.__init__(*allowed_types): the lower-cased set, None ({} here)
\* when no type is given.
Geometry_init(args) == {Lower(x) : x \in args}

Geometry_to_json_repr(v) ==
    IF IsGeo(v) /\ v[2] = "shape" THEN Geo("json", v[3]) ELSE v

\* Geometry.to_rql_repr that never looks at allowed_types.
Geometry_to_rql_any(allowed, v) ==
    IF ~(IsGeo(v) /\ v[2] = "json") THEN [err |-> "TypeError", val |-> v]
    ELSE [err |-> "ok", val |-> Geo("rql", v[3])]

\* Geometry.to_rql_repr(value) of a handler whose allowed_types is `allowed`
Geometry_to_rql(allowed, v) ==
    IF ~(IsGeo(v) /\ v[2] = "json") THEN [err |-> "TypeError", val |-> v]
    ELSE IF allowed # {} /\ Lower(v[3]) \notin allowed
         THEN [err |-> "ValidationError", val |-> v]
         ELSE [err |-> "ok", val |-> Geo("rql", v[3])]

Geometry_to_rql_repr(v) == Geometry_to_rql(allowed_types, v)

\* del value['$reql_type$']; shape(value): a GeoJSON mapping has no such key,
\* a shapely object has no item deletion.
Geometry_to_python_repr(v) ==
    IF IsGeo(v) /\ v[2] = "rql" THEN [err |-> "ok", val |-> Geo("shape", v[3])]
    ELSE IF IsGeo(v) /\ v[2] = "shape" THEN [err |-> "TypeError", val |-> v]
    ELSE [err |-> "KeyError", val |-> v]

_to_json_repr(o) ==
    [p \in Props |-> IF p \in specials /\ o[p] # Absent
                     THEN Geometry_to_json_repr(o[p]) ELSE o[p]]

_to_rql_repr(o) ==
    LET bad == {p \in specials : o[p] # Absent /\ Geometry_to_rql_repr(o[p]).err # "ok"}
    IN IF bad # {}
       THEN [err |-> Geometry_to_rql_repr(o[CHOOSE p \in bad : TRUE]).err, val |-> o]
       ELSE [err |-> "ok",
             val |-> [p \in Props |-> IF p \in specials /\ o[p] # Absent
                                      THEN Geometry_to_rql_repr(o[p]).val ELSE o[p]]]

\* _to_python_repr without the test `property in doc`.
_to_python_repr_unguarded(o) ==
    IF \E p \in specials : Geometry_to_python_repr(o[p]).err # "ok"
    THEN [err |-> "KeyError", val |-> o]
    ELSE [err |-> "ok",
          val |-> [p \in Props |-> IF p \in specials
                                   THEN Geometry_to_python_repr(o[p]).val ELSE o[p]]]

\* Collection._to_python_repr(doc)
_to_python_repr(o) ==
    LET bad == {p \in specials : o[p] # Absent /\ Geometry_to_python_repr(o[p]).err # "ok"}
    IN IF bad # {}
       THEN [err |-> "KeyError", val |-> o]
       ELSE [err |-> "ok",
             val |-> [p \in Props |-> IF p \in specials /\ o[p] # Absent
                                      THEN Geometry_to_python_repr(o[p]).val ELSE o[p]]]

-----------------------------------------------------------------------------
\* The Time handler.  A time value is <<"time", form, tz>>: a datetime
\* ("datetime", with its UTC offset in minutes as tz, "naive" when it has
\* none), an ISO 8601 string ("iso", with its zone designator as tz, "" when
\* it has none), or a stored time ("rql": an object with to_epoch_time() and
\* timezone(), with the zone string it reports as tz).

Time(form, tz) == <<"time", form, tz>>
IsTime(v) == Len(v) = 3 /\ v[1] = "time"

TimeZones == {"Z", "+00:00", "+05:30", "-05:00", "-05:30", "-00:30"}

\* tz[0] == '-'
StartsWithMinus(tz) == tz \in {"-05:00", "-05:30", "-00:30"}

\* int(tz.split(":")[0]) and int(tz.split(":")[1]): int() reads a sign.
SplitHours(tz) ==
    CASE tz = "+00:00" -> 0 [] tz = "+05:30" -> 5 [] tz = "-05:00" -> 0 - 5
      [] tz = "-05:30" -> 0 - 5 [] tz = "-00:30" -> 0
SplitMinutes(tz) ==
    CASE tz = "+00:00" -> 0 [] tz = "+05:30" -> 30 [] tz = "-05:00" -> 0
      [] tz = "-05:30" -> 30 [] tz = "-00:30" -> 30

\* Time.from_rql_tz(tz)
from_rql_tz(tz) ==
    IF tz = "Z" THEN 0
    ELSE (IF StartsWithMinus(tz) THEN 0 - 1 ELSE 1) * (SplitHours(tz) * 60 + SplitMinutes(tz))

\* The UTC offset, in minutes, that a zone designator denotes.
ZoneMinutes(tz) ==
    CASE tz = "Z" -> 0 [] tz = "" -> 0 [] tz = "+00:00" -> 0 [] tz = "+05:30" -> 330
      [] tz = "-05:00" -> 0 - 300 [] tz = "-05:30" -> 0 - 330 [] tz = "-00:30" -> 0 - 30

\* The zone designator isoformat() writes for an offset.
IsoZone(off) ==
    CASE off = "naive" -> "" [] off = "0" -> "+00:00" [] off = "330" -> "+05:30"
      [] off = "-300" -> "-05:00" [] off = "-330" -> "-05:30" [] off = "-30" -> "-00:30"

\* Time.to_json_repr(value)
Time_to_json_repr(v) ==
    IF IsTime(v) /\ v[2] = "datetime" THEN Time("iso", IsoZone(v[3]))
    ELSE IF IsTime(v) /\ v[2] = "rql" THEN Time("iso", v[3])
    ELSE v

\* Time.to_python_repr(value): iso8601.parse_date of a string (UTC when it
\* names no zone); a datetime as it is; for a stored time,
\* timezone(from_rql_tz(tz)) is called with an int and raises TypeError.
Time_to_python_repr(v) ==
    IF IsTime(v) /\ v[2] = "iso"
    THEN [err |-> "ok", val |-> Time("datetime", ToString(ZoneMinutes(v[3])))]
    ELSE IF IsTime(v) /\ v[2] = "datetime" THEN [err |-> "ok", val |-> v]
    ELSE IF IsTime(v) /\ v[2] = "rql" THEN [err |-> "TypeError", val |-> v]
    ELSE [err |-> "ok", val |-> None]

\* A handler applied to a value: to_python_repr, to_json_repr, to_rql_repr.
Handlers == {"Geometry", "Time"}
to_python_repr(h, v) ==
    IF h = "Geometry" THEN Geometry_to_python_repr(v) ELSE Time_to_python_repr(v)
to_json_repr(h, v) ==
    IF h = "Geometry" THEN [err |-> "ok", val |-> Geometry_to_json_repr(v)]
    ELSE [err |-> "ok", val |-> Time_to_json_repr(v)]

\* The allow-lists a Geometry handler is constructed with.
AllowLists == {{}, {"Point"}, {"point"}, {"Polygon"}, {"Point", "LineString"}}
GeoTypes == {"Point", "Polygon", "LineString"}

\* A handler and the value handed to it: nothing converted yet.
Conv(h, args, x) ==
    [handler |-> h, allowed_types |-> Geometry_init(args), args |-> args, x |-> x,
     cur |-> x, err |-> "ok", trail |-> <<>>, vals |-> <<>>]

NoConv == Conv("Geometry", {}, None)

ConvInputs ==
    {Conv("Geometry", a, Geo(f, t)) : a \in AllowLists, f \in {"shape", "json", "rql"},
                                     t \in GeoTypes}
    \cup {Conv("Time", {}, Time("rql", z)) : z \in TimeZones}
    \cup {Conv("Time", {}, Time("iso", z)) : z \in TimeZones \cup {""}}
    \cup {Conv("Time", {}, Time("datetime", o)) : o \in {"naive", "0", "330", "-300"}}

\* One conversion applied to the current value.
Converted(c, op, r) ==
    [c EXCEPT !.cur = r.val, !.err = r.err, !.trail = Append(@, op),
              !.vals = Append(@, r.val)]

-----------------------------------------------------------------------------
\* jsonschema.validate against the collection's schema:
\* sku, name, ref are strings, loc is an object.
TypeOK(p, v) ==
    IF p = "loc" THEN IsGeo(v) /\ v[2] = "json" ELSE IsStr(v)

Validate(o) == \A p \in Props : o[p] = Absent \/ TypeOK(p, o[p])

-----------------------------------------------------------------------------
\* Document objects

\* deleted and child are history: deleted is set once a delete has removed the
\* row of a saved Document; child is the slot of the Document, unsaved at the
\* time, that was last placed in property "ref" (0: none).
NoDoc == [live |-> FALSE, obj |-> EmptyObj, saved |-> FALSE, url |-> None,
          deleted |-> FALSE, child |-> 0]

Slots == 1..MaxDocs
FreeSlots == {i \in Slots : ~docs[i].live}
LiveSlots == {i \in Slots : docs[i].live}

\* Document.__init__: every property goes through __setitem__; plain values
\* are stored as they are.
Document_init(o, from_db) ==
    [live |-> TRUE,
     obj |-> o,
     saved |-> from_db,
     url |-> IF o[primary_key] # Absent THEN Join(collection_url, o[primary_key]) ELSE None,
     deleted |-> FALSE,
     child |-> 0]

\* Document.id
Document_id(d) ==
    IF d.saved
    THEN IF d.obj[primary_key] = Absent THEN [err |-> "KeyError", val |-> None]
         ELSE [err |-> "ok", val |-> d.obj[primary_key]]
    ELSE [err |-> "ok", val |-> None]

\* len(collection): bool(collection) is len(collection) != 0
Collection_len(st) == Cardinality({k \in Keys : st[k] # NoRow})

\* Document.url
Document_url(d, st) ==
    IF d.url # None THEN [err |-> "ok", val |-> d.url]
    ELSE LET id == Document_id(d) IN
         IF Collection_len(st) # 0
         THEN IF id.err # "ok" THEN id
              ELSE IF ~IsStr(id.val) THEN [err |-> "TypeError", val |-> None]
              ELSE [err |-> "ok", val |-> Join(collection_url, id.val)]
         ELSE id

\* Document.id setter
Document_set_id(d, k) ==
    [d EXCEPT !.obj[primary_key] = k, !.url = Join(collection_url, k)]

-----------------------------------------------------------------------------
\* The store (the RethinkDB table behind Collection.table)

\* insert(values, conflict=...): a row without a primary key gets a generated
\* key; a row whose key exists is an error of that row ("error") or replaces it.
RECURSIVE table_insert(_, _, _, _, _, _)
table_insert(st, gc, values, n, conflict, generated_keys) ==
    IF n > Len(values)
    THEN [store |-> st, genCount |-> gc, generated_keys |-> generated_keys]
    ELSE LET v == values[n]
             gen == v[primary_key] = Absent
             k == IF gen THEN GenKey(gc + 1) ELSE v[primary_key]
             row == [v EXCEPT ![primary_key] = k]
             st1 == IF st[k] # NoRow /\ conflict = "error" THEN st
                    ELSE [st EXCEPT ![k] = row]
         IN table_insert(st1, IF gen THEN gc + 1 ELSE gc, values, n + 1, conflict,
                         IF gen THEN Append(generated_keys, k) ELSE generated_keys)

\* How many of the values need a generated key.
NeedGen(os) == Cardinality({n \in 1..Len(os) : os[n][primary_key] = Absent})

-----------------------------------------------------------------------------
\* Collection.save

\* A Document object (slot j) held as a value.
DocRef(j) == <<"doc", ToString(j)>>

\* An element of the list handed to save: a Document ("doc", slot i), the obj
\* mapping of a Document itself ("obj", slot i: what Document.save passes), or
\* a plain mapping ("dict", val).
DocItem(i) == [kind |-> "doc", i |-> i, val |-> EmptyObj]
ObjItem(i) == [kind |-> "obj", i |-> i, val |-> EmptyObj]
DictItem(o) == [kind |-> "dict", i |-> 0, val |-> o]

\* The loop of Collection.save over docs[n..]; validatorAt is the position at
\* which the validator hook raises (0: it never does).
RECURSIVE save_loop(_, _, _, _, _)
save_loop(ds, items, n, values, validatorAt) ==
    IF n > Len(items)
    THEN [docs |-> ds, values |-> values, err |-> "ok", stage |-> "insert"]
    ELSE LET it == items[n]
             ds1 == IF it.kind = "doc" THEN [ds EXCEPT ![it.i].saved = TRUE] ELSE ds
             v0 == IF it.kind = "dict" THEN it.val ELSE ds1[it.i].obj
             v1 == _to_json_repr(v0)
             ds2 == IF it.kind = "obj" THEN [ds1 EXCEPT ![it.i].obj = v1] ELSE ds1
             r == _to_rql_repr(v1)
             ds3 == IF it.kind = "obj" THEN [ds2 EXCEPT ![it.i].obj = r.val] ELSE ds2
         IN IF ~Validate(v1)
            THEN [docs |-> ds2, values |-> values, err |-> "ValidationError",
                  stage |-> "schema"]
            ELSE IF validatorAt = n
            THEN [docs |-> ds2, values |-> values, err |-> "ValidationError",
                  stage |-> "validator"]
            ELSE IF r.err # "ok"
            THEN [docs |-> ds2, values |-> values, err |-> r.err, stage |-> "rql"]
            ELSE save_loop(ds3, items, n + 1, Append(values, r.val), validatorAt)

\* Collection.save(docs, conflict=...): the loop, then the insert.
Collection_save(ds, st, gc, items, conflict, validatorAt) ==
    LET l == save_loop(ds, items, 1, <<>>, validatorAt)
        w == table_insert(st, gc, l.values, 1, conflict, <<>>)
    IN IF l.err # "ok"
       THEN [docs |-> l.docs, store |-> st, genCount |-> gc, err |-> l.err,
             stage |-> l.stage, generated_keys |-> <<>>]
       ELSE [docs |-> l.docs, store |-> w.store, genCount |-> w.genCount, err |-> "ok",
             stage |-> "done", generated_keys |-> w.generated_keys]

\* A Document.save that first saves the never-saved Document held in "ref",
\* and so on from Document to Document: it does not return on a cycle.
Document_save_following(ds, st, gc, i, validatorAt) ==
    IF /\ ds[i].child \in Slots \ {i}
       /\ ds[ds[i].child].child = i
       /\ ~ds[i].saved /\ ~ds[ds[i].child].saved
    THEN [docs |-> ds, store |-> st, genCount |-> gc, err |-> "RecursionError",
          stage |-> "reference", generated_keys |-> <<>>]
    ELSE Collection_save(ds, st, gc, <<ObjItem(i)>>, "error", validatorAt)

\* Document.save
Document_save(ds, st, gc, i, validatorAt) ==
    Collection_save(ds, st, gc, <<ObjItem(i)>>, "error", validatorAt)

\* value[self.primary_key] = key: through Document.__setitem__ for a
\* Document (its cached url is left as it is), in the mapping itself otherwise.
force_key(ds, item, key) ==
    IF item.kind = "doc"
    THEN [docs |-> [ds EXCEPT ![item.i].obj[primary_key] = key], item |-> item]
    ELSE [docs |-> ds, item |-> [item EXCEPT !.val[primary_key] = key]]

\* self.save(...).run(connection): save returns the mapping that the insert
\* returned, which has no attribute `run`.
save_run(s) ==
    IF s.err # "ok" THEN s ELSE [s EXCEPT !.err = "AttributeError", !.stage = "run"]

\* Collection.__setitem__(key, value)
Collection_setitem(ds, st, gc, key, item, validatorAt) ==
    save_run(Collection_save(force_key(ds, item, key).docs, st, gc,
                             <<force_key(ds, item, key).item>>, "replace", validatorAt))

-----------------------------------------------------------------------------
\* Suite and Application (sondra/document.py)

AppNames == {"Auth", "MyApp", "myApp"}
Slugs == {"auth", "my-app"}

\* utils.camelcase_slugify: the hyphenated, lower-cased form of a name.
camelcase_slugify(name) ==
    CASE name = "Auth" -> "auth"
      [] name = "MyApp" -> "my-app"
      [] name = "myApp" -> "my-app"
      [] name = "Users" -> "users"
      [] name = "UserGroups" -> "user-groups"

\* utils.convert_camelcase: the lower-cased form of a name with underscores
\* (the slug with its hyphens replaced by underscores).
convert_camelcase(name) ==
    CASE name = "Auth" -> "auth"
      [] name = "MyApp" -> "my_app"
      [] name = "myApp" -> "my_app"
      [] name = "Users" -> "users"
      [] name = "UserGroups" -> "user_groups"

\* Suite.__len__
Suite_len(registered) == Cardinality({g \in Slugs : registered[g] # 0})

\* "not Suite.instance": no instance yet, or an instance whose len() is 0.
NotInstance(su, registered) == su.instance = 0 \/ Suite_len(registered) = 0

\* SuiteMetaclass.__call__: Suite()
SuiteMetaclass_call(su, registered) ==
    IF Cardinality(su.registry) > 1
    THEN [suite |-> su, err |-> "SuiteException", val |-> 0]
    ELSE LET made == su.constructed + 1
             su1 == IF NotInstance(su, registered)
                    THEN [su EXCEPT !.instance = made, !.constructed = made]
                    ELSE su
         IN [suite |-> [su1 EXCEPT !.returned = @ \cup {su1.instance}],
             err |-> "ok", val |-> su1.instance]

\* SuiteMetaclass.__init__: a class statement with base class `base`.
SuiteMetaclass_init(su, base) ==
    LET c == su.classes + 1
    IN [su EXCEPT !.classes = c, !.registry = (@ \cup {c}) \ {base}]

\* register_application without the check for a registered slug.
register_application_overwrite(registered, slug, app) ==
    [applications |-> [registered EXCEPT ![slug] = app], err |-> "ok"]

\* Suite.register_application(app)
register_application(registered, slug, app) ==
    IF registered[slug] # 0
    THEN [applications |-> registered, err |-> "SuiteException"]
    ELSE [applications |-> [registered EXCEPT ![slug] = app], err |-> "ok"]

\* ApplicationMetaclass.__call__: Application.__init__ (two Suite() calls),
\* then Suite().register_application(instance).
ApplicationMetaclass_call(su, registered, made, name) ==
    LET c1 == SuiteMetaclass_call(su, registered)
        c2 == SuiteMetaclass_call(c1.suite, registered)
        c3 == SuiteMetaclass_call(c2.suite, registered)
        app == Len(made) + 1
        slug == camelcase_slugify(name)
        reg == register_application(registered, slug, app)
    IN IF c1.err # "ok"
       THEN [suite |-> su, applications |-> registered, apps |-> made, err |-> c1.err]
       ELSE [suite |-> c3.suite, applications |-> reg.applications,
             apps |-> Append(made, [name |-> name, slug |-> slug, env |-> c1.val,
                                    registered |-> reg.err = "ok"]),
             err |-> reg.err]

-----------------------------------------------------------------------------
\* Declaring Document and Collection classes (the metaclasses of
\* sondra/document/__init__.py, sondra/collection/__init__.py and
\* sondra/document.py).  A definition or a schema property is held as the
\* number of the class whose class statement wrote it (0: not there).

DefKeys == {"addr", "tag"}
SchemaProps == {"id", "title"}
NoDefinitions == [k \in DefKeys |-> 0]
NoProperties == [q \in SchemaProps |-> 0]

\* d.update(other)
dict_update(d, other) == [k \in DOMAIN d |-> IF other[k] # 0 THEN other[k] ELSE d[k]]

\* The fragment a class statement of class c writes under the keys `keys`.
Fragment(dom, keys, c) == [k \in dom |-> IF k \in keys THEN c ELSE 0]

\* The attrs of a class statement: has_x says whether attribute x is in it.
Attrs(has_definitions, definitions, has_schema, properties) ==
    [has_definitions |-> has_definitions, definitions |-> definitions,
     has_schema |-> has_schema, properties |-> properties]

\* Document itself: its class statement names no definitions and no schema.
BaseDocument ==
    [definitions |-> NoDefinitions,
     schema |-> [properties |-> NoProperties, definitions |-> NoDefinitions],
     base |-> 0, attrs |-> Attrs(FALSE, NoDefinitions, FALSE, NoProperties)]

DocumentClass(cs, b) == IF b = 0 THEN BaseDocument ELSE cs.documents[b]

\* The loop over bases and the merge into attrs['definitions'] that both
\* DocumentMetaclass.__new__ and CollectionMetaclass.__new__ run.
inherit_definitions(base_definitions, attrs) ==
    IF attrs.has_definitions
    THEN dict_update(attrs.definitions, dict_update(NoDefinitions, base_definitions))
    ELSE dict_update(NoDefinitions, base_definitions)

\* DocumentMetaclass.__new__: attrs['definitions'] and attrs['schema'].
DocumentMetaclass_new(base_class, attrs) ==
    [definitions |-> inherit_definitions(base_class.definitions, attrs),
     properties |-> IF attrs.has_schema THEN attrs.properties ELSE NoProperties]

\* DocumentMetaclass.__init__: cls.schema['definitions'] = nmspc['definitions']
DocumentMetaclass_init(made, base, attrs) ==
    [definitions |-> made.definitions,
     schema |-> [properties |-> made.properties, definitions |-> made.definitions],
     base |-> base, attrs |-> attrs]

\* class B(A): ... for a Document class
DocumentMetaclass_call(cs, base, attrs) ==
    DocumentMetaclass_init(DocumentMetaclass_new(DocumentClass(cs, base), attrs), base, attrs)

\* The primary_key a Collection class statement may write: none at all (the
\* class inherits "id"), "id", another property, or None.
PrimaryKeys == {"unset", "id", "sku", "None"}
effective_primary_key(pk) == IF pk = "unset" THEN "id" ELSE pk

\* The schema steps of CollectionMetaclass.__init__ (both generations): the
\* copy of document_class.schema, the test for "id", the synthesized "id".
collection_schema(c, properties, pk) ==
    IF properties["id"] # 0
    THEN [err |-> "CollectionException", properties |-> properties]
    ELSE IF effective_primary_key(pk) = "None"
    THEN [err |-> "ok", properties |-> [properties EXCEPT !["id"] = c]]
    ELSE [err |-> "ok", properties |-> properties]

CollNames == {"Users", "UserGroups"}
RegKeys == {"users", "user-groups", "user_groups"}

NoCollection ==
    [name |-> "", slug |-> "", abstract |-> TRUE, primary_key |-> "id",
     definitions |-> NoDefinitions, properties |-> NoProperties, document_class |-> 0,
     declared |-> "unset", attrs |-> Attrs(FALSE, NoDefinitions, FALSE, NoProperties)]

\* CollectionMetaclass.__new__ and __init__ of sondra/collection/__init__.py
CollectionMetaclass_call(cs, c, name, base_definitions, attrs, document_class, pk) ==
    IF document_class = 0
    THEN [err |-> "ok",
          class |-> [NoCollection EXCEPT !.name = convert_camelcase(name),
                        !.definitions = inherit_definitions(base_definitions, attrs),
                        !.primary_key = effective_primary_key(pk),
                        !.declared = pk, !.attrs = attrs]]
    ELSE [err |-> collection_schema(c, DocumentClass(cs, document_class).schema.properties, pk).err,
          class |-> [name |-> convert_camelcase(name),
                     slug |-> camelcase_slugify(name),
                     abstract |-> FALSE,
                     primary_key |-> effective_primary_key(pk),
                     definitions |-> inherit_definitions(base_definitions, attrs),
                     properties |-> collection_schema(
                         c, DocumentClass(cs, document_class).schema.properties, pk).properties,
                     document_class |-> document_class,
                     declared |-> pk, attrs |-> attrs]]

\* ApplicationMetaclass.register_collection(collection_class)
register_collection(registry, name, slug, c) ==
    IF registry[name] = 0
    THEN [registry |-> [registry EXCEPT ![slug] = c], err |-> "ok"]
    ELSE [registry |-> registry, err |-> "ApplicationException"]

\* CollectionMetaclass.__init__ of sondra/document.py: name and slug, the
\* schema steps, then application.register_collection(cls).
OldCollectionMetaclass_init(registry, c, name, properties, pk) ==
    IF collection_schema(c, properties, pk).err # "ok"
    THEN [registry |-> registry, err |-> collection_schema(c, properties, pk).err,
          properties |-> properties]
    ELSE [registry |-> register_collection(registry, convert_camelcase(name),
                                           camelcase_slugify(name), c).registry,
          err |-> register_collection(registry, convert_camelcase(name),
                                      camelcase_slugify(name), c).err,
          properties |-> collection_schema(c, properties, pk).properties]

NoOldCollection == [name |-> "", slug |-> "", properties |-> NoProperties, primary_key |-> "id"]

NoClasses ==
    [documents |-> <<>>, collection |-> NoCollection, old_collection |-> NoOldCollection,
     declared |-> 0, registry |-> [k \in RegKeys |-> 0]]

-----------------------------------------------------------------------------
\* Provisioning: the tables and indexes of the store (RethinkDB), and
\* Collection.create_table / drop_table, Application.create_tables /
\* drop_tables.  A store call fails with ReqlOpFailedError when what it is to
\* create exists or what it is to use or drop does not; `fail` marks a call
\* that fails with ReqlDriverError (the connection is lost) and does nothing.

TableNames == <<"users", "user_groups">>
indexes == <<"name", "loc">>
NoTable == [exists |-> FALSE, indexes |-> {}]
NoTables == [db |-> [t \in {TableNames[n] : n \in 1..Len(TableNames)} |-> NoTable],
             log |-> <<>>]

\* r.db(db).table_create(name, primary_key=...).run(connection)
table_create(db, t, fail) ==
    IF fail THEN [db |-> db, err |-> "ReqlDriverError"]
    ELSE IF db[t].exists THEN [db |-> db, err |-> "ReqlOpFailedError"]
    ELSE [db |-> [db EXCEPT ![t] = [exists |-> TRUE, indexes |-> {}]], err |-> "ok"]

\* self.table.index_create(index, multi=..., geo=...).run(connection)
index_create(db, t, index, fail) ==
    IF fail THEN [db |-> db, err |-> "ReqlDriverError"]
    ELSE IF ~db[t].exists \/ index \in db[t].indexes
         THEN [db |-> db, err |-> "ReqlOpFailedError"]
    ELSE [db |-> [db EXCEPT ![t].indexes = @ \cup {index}], err |-> "ok"]

\* r.db(db).table_drop(name).run(connection)
table_drop(db, t, fail) ==
    IF fail THEN [db |-> db, err |-> "ReqlDriverError"]
    ELSE IF ~db[t].exists THEN [db |-> db, err |-> "ReqlOpFailedError"]
    ELSE [db |-> [db EXCEPT ![t] = NoTable], err |-> "ok"]

\* except r.ReqlError: self.log.info(...): the error is logged, not raised.
swallow(tb, r) ==
    [db |-> r.db, log |-> IF r.err = "ok" THEN tb.log ELSE Append(tb.log, r.err)]

\* The loop of create_table over self.indexes[n..]; the store call of index
\* n is call n + 1 of the operation, and call `fault` (0: none) fails.
RECURSIVE create_indexes(_, _, _, _)
create_indexes(tb, t, n, fault) ==
    IF n > Len(indexes) THEN tb
    ELSE create_indexes(swallow(tb, index_create(tb.db, t, indexes[n], fault = n + 1)),
                        t, n + 1, fault)

\* create_table whose table_create is not inside a try.
Collection_create_table_raising(tb, t, fault) ==
    IF table_create(tb.db, t, fault = 1).err # "ok"
    THEN [tables |-> tb, err |-> table_create(tb.db, t, fault = 1).err]
    ELSE [tables |-> create_indexes(swallow(tb, table_create(tb.db, t, fault = 1)),
                                    t, 1, fault),
          err |-> "ok"]

\* Collection.create_table()
Collection_create_table(tb, t, fault) ==
    [tables |-> create_indexes(swallow(tb, table_create(tb.db, t, fault = 1)), t, 1, fault),
     err |-> "ok"]

\* Collection.drop_table()
Collection_drop_table(tb, t, fault) ==
    [tables |-> [tb EXCEPT !.db = table_drop(tb.db, t, fault = 1).db],
     err |-> table_drop(tb.db, t, fault = 1).err]

\* The store calls one create_table makes.
CallsPerCreate == 1 + Len(indexes)

\* Application.create_tables(): create_table of every collection in a
\* try / except: pass.  Call `fault` is counted over the whole loop.
RECURSIVE Application_create_tables(_, _, _)
Application_create_tables(tb, n, fault) ==
    IF n > Len(TableNames) THEN [tables |-> tb, err |-> "ok"]
    ELSE Application_create_tables(
             Collection_create_table(tb, TableNames[n],
                                     IF fault > (n - 1) * CallsPerCreate
                                        /\ fault <= n * CallsPerCreate
                                     THEN fault - (n - 1) * CallsPerCreate ELSE 0).tables,
             n + 1, fault)

\* Application.drop_tables(): drop_table of every collection in a
\* try / except: pass.
RECURSIVE Application_drop_tables(_, _, _)
Application_drop_tables(tb, n, fault) ==
    IF n > Len(TableNames) THEN [tables |-> tb, err |-> "ok"]
    ELSE Application_drop_tables(Collection_drop_table(tb, TableNames[n],
                                                       IF fault = n THEN 1 ELSE 0).tables,
                                 n + 1, fault)

-----------------------------------------------------------------------------
\* What an operation reports.

Res(op, err, stage, key, ids, doc) ==
    [op |-> op, err |-> err, stage |-> stage, key |-> key, ids |-> ids, doc |-> doc]

Init ==
    /\ store = [k \in Keys |-> NoRow]
    /\ genCount = 0
    /\ docs = [i \in Slots |-> NoDoc]
    /\ result = Res("init", "ok", "done", None, {}, NoDoc)
    /\ ops = 0
    /\ suite = [instance |-> 0, constructed |-> 0, registry |-> {0}, classes |-> 0,
                returned |-> {}]
    /\ applications = [g \in Slugs |-> 0]
    /\ apps = <<>>
    /\ classes = NoClasses
    /\ conv = NoConv
    /\ tables = NoTables

\* One more operation of the run.
Step == ops < MaxOps /\ ops' = ops + 1
Count == Step /\ UNCHANGED classVars
Tick == Count /\ UNCHANGED suiteVars

\* Collection.doc(value)
Doc(i, o) ==
    /\ Tick
    /\ i \in FreeSlots
    /\ i = CHOOSE j \in FreeSlots : \A m \in FreeSlots : j <= m
    /\ docs' = [docs EXCEPT ![i] = Document_init(o, FALSE)]
    /\ result' = Res("doc", "ok", "done", None, {i}, NoDoc)
    /\ UNCHANGED <<store, genCount>>

\* The first n free slots, in order.
RECURSIVE Alloc(_, _)
Alloc(free, n) ==
    IF n = 0 THEN <<>>
    ELSE LET j == CHOOSE x \in free : \A m \in free : x <= m
         IN <<j>> \o Alloc(free \ {j}, n - 1)

\* for i, k in enumerate(ret['generated_keys']): docs[i].id = k
RECURSIVE assign_generated(_, _, _, _)
assign_generated(ds, slots, generated_keys, n) ==
    IF n > Len(generated_keys) THEN ds
    ELSE assign_generated([ds EXCEPT ![slots[n]] = Document_set_id(ds[slots[n]], generated_keys[n])],
                          slots, generated_keys, n + 1)

\* Collection.create(value): value is one mapping or a list of mappings.
Collection_create(ds, st, gc, slots, values, validatorAt) ==
    LET ds0 == [i \in Slots |-> IF \E n \in 1..Len(slots) : slots[n] = i
                                THEN Document_init(values[CHOOSE n \in 1..Len(slots) : slots[n] = i], FALSE)
                                ELSE ds[i]]
        s == Collection_save(ds0, st, gc, [n \in 1..Len(slots) |-> DocItem(slots[n])],
                             "error", validatorAt)
    IN IF s.err # "ok"
       THEN [s EXCEPT !.docs = ds]
       ELSE [s EXCEPT !.docs = assign_generated(s.docs, slots, s.generated_keys, 1)]

Create(values, validatorAt) ==
    /\ Tick
    /\ Cardinality(FreeSlots) >= Len(values)
    /\ genCount + NeedGen(values) <= MaxGen
    /\ LET slots == Alloc(FreeSlots, Len(values))
           c == Collection_create(docs, store, genCount, slots, values, validatorAt)
       IN /\ docs' = c.docs
          /\ store' = c.store
          /\ genCount' = c.genCount
          /\ result' = Res("create", c.err, c.stage, None,
                           IF c.err = "ok" THEN {slots[n] : n \in 1..Len(slots)} ELSE {},
                           NoDoc)

\* Collection.__getitem__(key)
Collection_getitem(st, key) ==
    IF st[key] = NoRow THEN [err |-> "KeyError", doc |-> NoDoc]
    ELSE LET p == _to_python_repr(st[key]) IN
         IF p.err # "ok" THEN [err |-> p.err, doc |-> NoDoc]
         ELSE [err |-> "ok", doc |-> Document_init(p.val, TRUE)]

Get(key) ==
    /\ Tick
    /\ LET g == Collection_getitem(store, key) IN
         result' = Res("get", g.err, "done", key, {}, g.doc)
    /\ UNCHANGED <<store, genCount, docs>>

\* Document.__setitem__(key, value) with a plain value
SetItem(i, k, v) ==
    /\ Tick
    /\ i \in LiveSlots
    /\ docs' = [docs EXCEPT ![i].obj[k] = v, ![i].child = IF k = "ref" THEN 0 ELSE @]
    /\ result' = Res("Document.setitem", "ok", "done", None, {i}, NoDoc)
    /\ UNCHANGED <<store, genCount>>

\* return v.url, with s what the save before it (if any) made of the state.
_reference_url(s, j, u) ==
    IF s.err # "ok"
    THEN [docs |-> s.docs, store |-> s.store, genCount |-> s.genCount, err |-> s.err,
          stage |-> s.stage, val |-> None]
    ELSE [docs |-> s.docs, store |-> s.store, genCount |-> s.genCount, err |-> u.err,
          stage |-> IF u.err = "ok" THEN "done" ELSE "url", val |-> u.val]

\* v.save() of _reference, run when v.id is falsy; s is the state after it.
_reference_saved(s, j) == _reference_url(s, j, Document_url(s.docs[j], s.store))

\* _reference(v) for a Document v (slot j): save it when it has no id, and
\* give its url.
_reference(ds, st, gc, j, validatorAt) ==
    IF Document_id(ds[j]).err # "ok"
    THEN [docs |-> ds, store |-> st, genCount |-> gc, err |-> Document_id(ds[j]).err,
          stage |-> "id", val |-> None]
    ELSE _reference_saved(
             IF ~Truthy(Document_id(ds[j]).val)
             THEN Document_save(ds, st, gc, j, validatorAt)
             ELSE [docs |-> ds, store |-> st, genCount |-> gc, err |-> "ok",
                   stage |-> "done", generated_keys |-> <<>>],
             j)

\* self.obj[key] = value, with r what _reference(value) returned; child is the
\* slot of the Document placed when it was unsaved (0: none).
Document_setitem_value(r, i, k, child) ==
    IF r.err # "ok" THEN r
    ELSE [r EXCEPT !.docs = [r.docs EXCEPT ![i].obj[k] = r.val, ![i].child = child]]

\* Document.__setitem__(key, value) with a Document as the value
Document_setitem_doc(ds, st, gc, i, k, j, validatorAt) ==
    Document_setitem_value(_reference(ds, st, gc, j, validatorAt), i, k,
                           IF ds[j].saved THEN 0 ELSE j)

SetRef(i, k, j, validatorAt) ==
    /\ Tick
    /\ i \in LiveSlots
    /\ j \in LiveSlots
    /\ genCount + NeedGen(<<docs[j].obj>>) <= MaxGen
    /\ \E r \in {Document_setitem_doc(docs, store, genCount, i, k, j, validatorAt)} :
         /\ docs' = r.docs
         /\ store' = r.store
         /\ genCount' = r.genCount
         /\ result' = Res("Document.setref", r.err, r.stage, None, {i, j}, NoDoc)

\* Document.__delitem__(key)
DelItem(i, k) ==
    /\ Tick
    /\ i \in LiveSlots
    /\ IF docs[i].obj[k] = Absent
       THEN /\ result' = Res("Document.delitem", "KeyError", "del", None, {i}, NoDoc)
            /\ UNCHANGED docs
       ELSE /\ docs' = [docs EXCEPT ![i].obj[k] = Absent,
                                    ![i].child = IF k = "ref" THEN 0 ELSE @]
            /\ result' = Res("Document.delitem",
                             IF Collection_len(store) # 0 THEN "AttributeError" ELSE "ok",
                             "processors", None, {i}, NoDoc)
    /\ UNCHANGED <<store, genCount>>

\* Document.save()
DocSave(i, validatorAt) ==
    /\ Tick
    /\ i \in LiveSlots
    /\ genCount + NeedGen(<<docs[i].obj>>) <= MaxGen
    /\ LET s == Document_save(docs, store, genCount, i, validatorAt) IN
        /\ docs' = s.docs
        /\ store' = s.store
        /\ genCount' = s.genCount
        /\ result' = Res("Document.save", s.err, s.stage, None, {i}, NoDoc)

\* Collection.save(docs) with a Document or a list of Documents
CollSave(slots, conflict, validatorAt) ==
    /\ Tick
    /\ \A n \in 1..Len(slots) : slots[n] \in LiveSlots
    /\ genCount + NeedGen([n \in 1..Len(slots) |-> docs[slots[n]].obj]) <= MaxGen
    /\ LET s == Collection_save(docs, store, genCount,
                                [n \in 1..Len(slots) |-> DocItem(slots[n])],
                                conflict, validatorAt)
       IN /\ docs' = s.docs
          /\ store' = s.store
          /\ genCount' = s.genCount
          /\ result' = Res("Collection.save", s.err, s.stage, None,
                           {slots[n] : n \in 1..Len(slots)}, NoDoc)

\* Collection.save(value) with a mapping; j is the slot of the Document the
\* mapping holds in "ref" (0: it holds none).
CollSaveMapping(o, j, validatorAt) ==
    /\ Tick
    /\ j # 0 => j \in LiveSlots
    /\ genCount + NeedGen(<<o>>) <= MaxGen
    /\ \E s \in {Collection_save(docs, store, genCount,
                                 <<DictItem(IF j = 0 THEN o
                                            ELSE [o EXCEPT !["ref"] = DocRef(j)])>>,
                                 "error", validatorAt)} :
         /\ docs' = s.docs
         /\ store' = s.store
         /\ genCount' = s.genCount
         /\ result' = Res("Collection.save", s.err, s.stage, None,
                          IF j = 0 THEN {} ELSE {j}, NoDoc)

\* The values handed to collection[key] = value: a Document or a mapping.
SetItemArgs == {DocItem(i) : i \in Slots} \cup {DictItem(o) : o \in Inputs}

\* collection[key] = value
CollSetItem(key, item, validatorAt) ==
    /\ Tick
    /\ item.kind = "doc" => item.i \in LiveSlots
    /\ \E s \in {Collection_setitem(docs, store, genCount, key, item, validatorAt)} :
         /\ docs' = s.docs
         /\ store' = s.store
         /\ genCount' = s.genCount
         /\ result' = Res("Collection.setitem", s.err, s.stage, key,
                          IF item.kind = "doc" THEN {item.i} ELSE {}, NoDoc)

-----------------------------------------------------------------------------
\* Deleting

\* The rows a delete removed take their saved Documents to "deleted".
MarkDeleted(ds, st, st1) ==
    [i \in Slots |->
        IF ds[i].live /\ ds[i].saved /\ ds[i].obj[primary_key] \in Keys
           /\ st[ds[i].obj[primary_key]] # NoRow /\ st1[ds[i].obj[primary_key]] = NoRow
        THEN [ds[i] EXCEPT !.deleted = TRUE] ELSE ds[i]]

\* An argument of Collection.delete: None, a key, a Document, or a list of
\* keys and Documents.
NoneArg == [kind |-> "none", list |-> <<>>]
KeyArg(k) == [kind |-> "one", list |-> <<<<"key", k>>>>]
DocArg(i) == [kind |-> "one", list |-> <<<<"doc", ToString(i)>>>>]
ListArg(l) == [kind |-> "list", list |-> l]

SlotOf(e) == CHOOSE i \in Slots : ToString(i) = e[2]

\* "not docs": None, "", an empty list and a Document with no property.
Falsy(ds, arg) ==
    \/ arg.kind = "none"
    \/ arg.kind = "list" /\ arg.list = <<>>
    \/ arg.kind = "one" /\ arg.list[1][1] = "key" /\ ~Truthy(arg.list[1][2])
    \/ arg.kind = "one" /\ arg.list[1][1] = "doc" /\ ds[SlotOf(arg.list[1])].obj = EmptyObj

\* values = [v.id if isinstance(v, Document) else v for v in docs]
DeleteValue(ds, e) ==
    IF e[1] = "doc" THEN Document_id(ds[SlotOf(e)]) ELSE [err |-> "ok", val |-> e[2]]

\* Collection.delete whose get_all matches no row.
Collection_delete_nothing(ds, st, arg) ==
    IF Falsy(ds, arg)
    THEN [store |-> [k \in Keys |-> NoRow], err |-> "ok", stage |-> "all"]
    ELSE [store |-> st, err |-> "ok", stage |-> "get_all"]

\* Collection.delete(docs)
Collection_delete(ds, st, arg) ==
    IF Falsy(ds, arg)
    THEN [store |-> [k \in Keys |-> NoRow], err |-> "ok", stage |-> "all"]
    ELSE LET vals == [n \in 1..Len(arg.list) |-> DeleteValue(ds, arg.list[n])]
         IN IF \E n \in 1..Len(vals) : vals[n].err # "ok"
            THEN [store |-> st, err |-> "KeyError", stage |-> "id"]
            ELSE IF \E n \in 1..Len(vals) : vals[n].val = None
            THEN [store |-> st, err |-> "ReqlError", stage |-> "get_all"]
            ELSE [store |-> [k \in Keys |-> IF \E n \in 1..Len(vals) : vals[n].val = k
                                            THEN NoRow ELSE st[k]],
                  err |-> "ok", stage |-> "get_all"]

\* Document.delete(): self.collection.delete(self.id)
Document_delete(ds, st, i) ==
    LET id == Document_id(ds[i]) IN
    IF id.err # "ok" THEN [store |-> st, err |-> id.err, stage |-> "id"]
    ELSE Collection_delete(ds, st, IF id.val = None THEN NoneArg ELSE KeyArg(id.val))

DeleteArgs ==
    {NoneArg, KeyArg(Str(""))}
    \cup {KeyArg(k) : k \in UserKeys}
    \cup {DocArg(i) : i \in Slots}
    \cup {ListArg(<<>>)}
    \cup {ListArg(<<<<"key", k>>, <<"doc", ToString(i)>>>>) : k \in UserKeys, i \in Slots}

Delete(arg) ==
    /\ Tick
    /\ \A n \in 1..Len(arg.list) : arg.list[n][1] = "doc" => SlotOf(arg.list[n]) \in LiveSlots
    /\ LET d == Collection_delete(docs, store, arg) IN
         /\ store' = d.store
         /\ docs' = MarkDeleted(docs, store, d.store)
         /\ result' = Res("Collection.delete", d.err, d.stage,
                          IF arg.kind = "one" /\ arg.list[1][1] = "key" THEN arg.list[1][2] ELSE None,
                          {SlotOf(arg.list[n]) : n \in {m \in 1..Len(arg.list) : arg.list[m][1] = "doc"}},
                          NoDoc)
    /\ UNCHANGED genCount

DocDelete(i) ==
    /\ Tick
    /\ i \in LiveSlots
    /\ LET d == Document_delete(docs, store, i) IN
         /\ store' = d.store
         /\ docs' = MarkDeleted(docs, store, d.store)
         /\ result' = Res("Document.delete", d.err, d.stage, None, {i}, NoDoc)
    /\ UNCHANGED genCount

\* Collection.__delitem__(key)
Collection_delitem(st, key) == [st EXCEPT ![key] = NoRow]

CollDelItem(key) ==
    /\ Tick
    /\ store' = Collection_delitem(store, key)
    /\ docs' = MarkDeleted(docs, store, store')
    /\ result' = Res("Collection.delitem", "ok", "done", key, {}, NoDoc)
    /\ UNCHANGED genCount

-----------------------------------------------------------------------------
SetVals == {<<"name", Str("Gadget")>>, <<"sku", Str("A2")>>}
\* The lists handed to create: one mapping, or two of which the first or the
\* second may lack a key or be invalid.
PairInputs == {Widget(Str("A1")), Mk(Absent, Str("Widget"), Absent), Mk(Str("A2"), Num("7"), Absent)}
Batches == {<<o>> : o \in Inputs} \cup {<<o1, o2>> : o1 \in PairInputs, o2 \in PairInputs}
SlotLists == {<<i>> : i \in Slots} \cup {<<i, j>> : i \in Slots, j \in Slots}

Next ==
    \/ \E i \in Slots, o \in Inputs : Doc(i, o)
    \/ \E b \in Batches : \E h \in 0..Len(b) : Create(b, h)
    \/ \E k \in UserKeys : Get(k)
    \/ \E i \in Slots, kv \in SetVals : SetItem(i, kv[1], kv[2])
    \/ \E i \in Slots, j \in Slots, h \in 0..1 : SetRef(i, "ref", j, h)
    \/ \E i \in Slots, k \in {"name", "ref"} : DelItem(i, k)
    \/ \E i \in Slots, h \in 0..1 : DocSave(i, h)
    \/ \E l \in SlotLists, c \in {"error", "replace"} : \E h \in 0..Len(l) : CollSave(l, c, h)
    \/ \E a \in DeleteArgs : Delete(a)
    \/ \E i \in Slots : DocDelete(i)
    \/ \E k \in UserKeys : CollDelItem(k)

Spec == Init /\ [][Next]_vars

\* The write path of a collection: documents constructed, changed and
\* written with create, save and collection[key] = value.
NextWrite ==
    \/ \E i \in Slots, o \in Inputs : Doc(i, o)
    \/ \E o \in Inputs, h \in 0..1 : Create(<<o>>, h)
    \/ \E k \in UserKeys : Get(k)
    \/ \E i \in Slots, kv \in SetVals : SetItem(i, kv[1], kv[2])
    \/ \E i \in Slots, c \in {"error", "replace"}, h \in 0..1 : CollSave(<<i>>, c, h)
    \/ \E k \in UserKeys, a \in SetItemArgs, h \in 0..1 : CollSetItem(k, a, h)
    \/ \E o \in Inputs, j \in 0..MaxDocs, h \in 0..1 : CollSaveMapping(o, j, h)

SpecWrite == Init /\ [][NextWrite]_vars

-----------------------------------------------------------------------------
\* Graphs of references between unsaved documents: every Document has been
\* constructed, and the documents are placed in one another and saved.

InitGraph ==
    /\ store = [k \in Keys |-> NoRow]
    /\ genCount = 0
    /\ \E f \in [Slots -> PairInputs \cup {Widget(Str("A2"))}] :
         docs = [i \in Slots |-> Document_init(f[i], FALSE)]
    /\ result = Res("init", "ok", "done", None, {}, NoDoc)
    /\ ops = 0
    /\ suite = [instance |-> 0, constructed |-> 0, registry |-> {0}, classes |-> 0,
                returned |-> {}]
    /\ applications = [g \in Slugs |-> 0]
    /\ apps = <<>>
    /\ classes = NoClasses
    /\ conv = NoConv
    /\ tables = NoTables

NextGraph ==
    \/ \E i \in Slots, j \in Slots, h \in 0..1 : SetRef(i, "ref", j, h)
    \/ \E i \in Slots, h \in 0..1 : DocSave(i, h)
    \/ \E i \in Slots, c \in {"error", "replace"}, h \in 0..1 : CollSave(<<i>>, c, h)

SpecGraph == InitGraph /\ [][NextGraph]_vars

-----------------------------------------------------------------------------
\* The conversions of a collection applied to a mapping, in place: the
\* mapping is the obj of Document 1.

ConvertInputs ==
    {Mk(k, n, l) : k \in {Absent, Str("A1")}, n \in {Absent, Str("Widget"), Num("7")},
                   l \in {Absent} \cup {Geo(f, t) : f \in {"shape", "json", "rql"},
                                                    t \in GeoTypes}}

InitConvert ==
    /\ store = [k \in Keys |-> NoRow]
    /\ genCount = 0
    /\ \E o \in ConvertInputs :
         docs = [i \in Slots |-> IF i = 1 THEN Document_init(o, FALSE) ELSE NoDoc]
    /\ result = Res("init", "ok", "done", None, {}, NoDoc)
    /\ ops = 0
    /\ suite = [instance |-> 0, constructed |-> 0, registry |-> {0}, classes |-> 0,
                returned |-> {}]
    /\ applications = [g \in Slugs |-> 0]
    /\ apps = <<>>
    /\ classes = NoClasses
    /\ conv = NoConv
    /\ tables = NoTables

\* collection._to_json_repr(doc)
ToJsonRepr ==
    /\ Tick
    /\ docs' = [docs EXCEPT ![1].obj = _to_json_repr(docs[1].obj)]
    /\ result' = Res("_to_json_repr", "ok", "done", None, {1}, NoDoc)
    /\ UNCHANGED <<store, genCount>>

\* collection._to_rql_repr(doc)
ToRqlRepr ==
    /\ Tick
    /\ docs' = [docs EXCEPT ![1].obj = _to_rql_repr(docs[1].obj).val]
    /\ result' = Res("_to_rql_repr", _to_rql_repr(docs[1].obj).err, "done", None, {1}, NoDoc)
    /\ UNCHANGED <<store, genCount>>

\* collection._to_python_repr(doc)
ToPythonRepr ==
    /\ Tick
    /\ docs' = [docs EXCEPT ![1].obj = _to_python_repr(docs[1].obj).val]
    /\ result' = Res("_to_python_repr", _to_python_repr(docs[1].obj).err, "done", None,
                     {1}, NoDoc)
    /\ UNCHANGED <<store, genCount>>

NextConvert ==
    \/ ToJsonRepr
    \/ ToRqlRepr
    \/ ToPythonRepr

SpecConvert == InitConvert /\ [][NextConvert]_vars

-----------------------------------------------------------------------------
\* The Suite and the applications registering with it.

SuiteCount == Count /\ UNCHANGED docVars

\* Suite()
SuiteCall ==
    /\ SuiteCount
    /\ LET c == SuiteMetaclass_call(suite, applications) IN
         /\ suite' = c.suite
         /\ result' = Res("Suite", c.err, "done", None, {c.val}, NoDoc)
    /\ UNCHANGED <<applications, apps>>

\* class X(base): a concrete Suite class is declared
DefineSuite(base) ==
    /\ SuiteCount
    /\ suite.classes < MaxSuiteClasses
    /\ base \in 0..suite.classes
    /\ suite' = SuiteMetaclass_init(suite, base)
    /\ result' = Res("class", "ok", "done", None, {}, NoDoc)
    /\ UNCHANGED <<applications, apps>>

\* Application(name)
NewApplication(name) ==
    /\ SuiteCount
    /\ LET a == ApplicationMetaclass_call(suite, applications, apps, name) IN
         /\ suite' = a.suite
         /\ applications' = a.applications
         /\ apps' = a.apps
         /\ result' = Res("Application", a.err, "done", Str(camelcase_slugify(name)),
                          {Len(a.apps)}, NoDoc)

NextSuite ==
    \/ SuiteCall
    \/ \E b \in 0..MaxSuiteClasses : DefineSuite(b)
    \/ \E n \in AppNames : NewApplication(n)

SpecSuite == Init /\ [][NextSuite]_vars

-----------------------------------------------------------------------------
\* References between documents (sondra/document.py): Document objects may
\* hold Documents; reference() collapses them to urls, dereference() expands
\* urls to live objects.  A held Document is <<"doc", slot>>, a list is
\* <<"list", v1, .., vn>>, and the Document that a lookup built from the row
\* under url u is <<"live">> \o Tail(u).

IsDocRef(v) == Len(v) = 2 /\ v[1] = "doc"
IsList(v) == Len(v) >= 1 /\ v[1] = "list"
IsLive(v) == Len(v) >= 1 /\ v[1] = "live"
Live(u) == <<"live">> \o Tail(u)
LiveUrl(v) == <<"str">> \o Tail(v)
RefSlot(v) == CHOOSE i \in Slots : ToString(i) = v[2]

\* The values of v that are no containers.
RECURSIVE Leaves(_)
Leaves(v) ==
    IF IsList(v) THEN UNION {Leaves(v[n + 1]) : n \in 1..(Len(v) - 1)}
    ELSE {v}

\* utils.mapjson(fun, doc): fun over the leaves, the containers kept.  fun is
\* a function on the leaves of doc.
RECURSIVE mapjson(_, _)
mapjson(fun, v) ==
    IF IsList(v) THEN <<"list">> \o [n \in 1..(Len(v) - 1) |-> mapjson(fun, v[n + 1])]
    ELSE fun[v]

\* Document.__init__ of sondra/document.py
OldDocument_init(o) ==
    [live |-> TRUE,
     obj |-> o,
     saved |-> FALSE,
     url |-> IF o[primary_key] # Absent THEN Join(collection_url, o[primary_key]) ELSE None,
     deleted |-> FALSE,
     child |-> 0]

\* _to_ref(doc)
_to_ref(ds, v) == IF IsDocRef(v) THEN ds[RefSlot(v)].url ELSE v

\* references(obj)
references(ds, o) ==
    [p \in Props |-> IF o[p] = Absent THEN Absent
                     ELSE mapjson([v \in Leaves(o[p]) |-> _to_ref(ds, v)], o[p])]

\* str.startswith(base_url) of a string that holds a url
StartsWithBase(v) == IsStr(v) /\ Len(v) >= 2 /\ v[2] = base_url[2]

\* Suite.__getitem__, Application.__getitem__, Collection.__getitem__ of the
\* three segments of a document url.
Suite_getitem(registered, slug) ==
    IF slug \in Slugs /\ registered[slug] # 0 THEN "ok" ELSE "KeyError"
Application_getitem(appslug, collslug) ==
    IF appslug = app_url[3] /\ collslug = collection_url[4] THEN "ok" ELSE "KeyError"
OldCollection_getitem(st, key) ==
    IF key \in Keys /\ st[key] # NoRow
    THEN [err |-> "ok", val |-> Live(Join(collection_url, st[key][primary_key]))]
    ELSE [err |-> "KeyError", val |-> None]

\* Reference(suite, url).get_document(): the application, the collection and
\* the document the url names, looked up in that order.
get_document(registered, st, url) ==
    IF Len(url) # 5 THEN [err |-> "KeyError", val |-> None]
    ELSE IF Suite_getitem(registered, url[3]) # "ok" THEN [err |-> "KeyError", val |-> None]
    ELSE IF Application_getitem(url[3], url[4]) # "ok" THEN [err |-> "KeyError", val |-> None]
    ELSE OldCollection_getitem(st, Str(url[5]))

\* Suite.lookup_document(url)
lookup_document(registered, st, url) ==
    IF ~StartsWithBase(url) THEN [err |-> "ok", val |-> None]
    ELSE get_document(registered, st, url)

\* _from_ref(doc)
_from_ref(registered, st, v) ==
    IF IsStr(v)
    THEN IF StartsWithBase(v) THEN lookup_document(registered, st, v)
         ELSE [err |-> "ok", val |-> v]
    ELSE [err |-> "ok", val |-> v]

\* documents(obj)
documents(registered, st, o) ==
    LET bad == {p \in Props : o[p] # Absent /\
                  \E v \in Leaves(o[p]) : _from_ref(registered, st, v).err # "ok"}
    IN IF bad # {}
       THEN [err |-> "KeyError", val |-> o]
       ELSE [err |-> "ok",
             val |-> [p \in Props |->
                        IF o[p] = Absent THEN Absent
                        ELSE mapjson([v \in Leaves(o[p]) |-> _from_ref(registered, st, v).val],
                                     o[p])]]

\* Document.reference()
Document_reference(ds, i) == [ds EXCEPT ![i].obj = references(ds, ds[i].obj)]

\* Document.dereference(): every _from_ref calls Suite() first.
Document_dereference(ds, su, registered, st, i) ==
    LET c == SuiteMetaclass_call(su, registered)
        d == documents(registered, st, ds[i].obj)
    IN IF c.err # "ok" THEN [docs |-> ds, suite |-> su, err |-> c.err]
       ELSE IF d.err # "ok" THEN [docs |-> ds, suite |-> c.suite, err |-> d.err]
       ELSE [docs |-> [ds EXCEPT ![i].obj = d.val], suite |-> c.suite, err |-> "ok"]

\* Collection.save(docs) of sondra/document.py, for one Document
OldCollection_save(ds, st, gc, i, conflict, validatorAt) ==
    LET v0 == references(ds, ds[i].obj)
        v1 == _to_json_repr(v0)
        r == _to_rql_repr(v1)
        w == table_insert(st, gc, <<r.val>>, 1, conflict, <<>>)
    IN IF ~Validate(v1) THEN [store |-> st, genCount |-> gc, err |-> "ValidationError", stage |-> "schema"]
       ELSE IF validatorAt = 1 THEN [store |-> st, genCount |-> gc, err |-> "ValidationError", stage |-> "validator"]
       ELSE IF r.err # "ok" THEN [store |-> st, genCount |-> gc, err |-> r.err, stage |-> "rql"]
       ELSE [store |-> w.store, genCount |-> w.genCount, err |-> "ok", stage |-> "done"]

\* The state after MyApp() has been constructed: its collection exists.
InitRef ==
    /\ store = [k \in Keys |-> NoRow]
    /\ genCount = 0
    /\ docs = [i \in Slots |-> NoDoc]
    /\ result = Res("init", "ok", "done", None, {}, NoDoc)
    /\ ops = 0
    /\ LET a == ApplicationMetaclass_call(
                    [instance |-> 0, constructed |-> 0, registry |-> {0}, classes |-> 0,
                     returned |-> {}],
                    [g \in Slugs |-> 0], <<>>, "MyApp")
       IN /\ suite = a.suite
          /\ applications = a.applications
          /\ apps = a.apps
    /\ classes = NoClasses
    /\ conv = NoConv
    /\ tables = NoTables

\* Strings a document may hold in "ref": the url of a document of the
\* collection, of an application that is not registered, of a collection the
\* application does not have, and a url under another base.
RefStrings ==
    {Join(collection_url, k) : k \in UserKeys}
    \cup {Join(Join(Join(base_url, Str("auth")), Str("coll")), Str("A1")),
          Join(Join(app_url, Str("ghost")), Str("A1")),
          Join(Join(Join(Str("http://elsewhere"), Str("my-app")), Str("coll")), Str("A1"))}

OldInputs ==
    {Widget(k) : k \in UserKeys}
    \cup {Mk(Absent, Str("Widget"), Absent)}
    \cup {[Widget(Str("A1")) EXCEPT !["ref"] = u] : u \in RefStrings}

\* Collection.doc(kwargs)
OldDoc(i, o) ==
    /\ Tick
    /\ i \in FreeSlots
    /\ i = CHOOSE j \in FreeSlots : \A m \in FreeSlots : j <= m
    /\ docs' = [docs EXCEPT ![i] = OldDocument_init(o)]
    /\ result' = Res("doc", "ok", "done", None, {i}, NoDoc)
    /\ UNCHANGED <<store, genCount>>

\* Document.__setitem__(key, value): a Document, or a list holding it, is
\* stored as it is.
OldSetItem(i, k, v) ==
    /\ Tick
    /\ i \in LiveSlots
    /\ \A l \in Leaves(v) : IsDocRef(l) => RefSlot(l) \in LiveSlots \ {i}
    /\ docs' = [docs EXCEPT ![i].obj[k] = v]
    /\ result' = Res("Document.setitem", "ok", "done", None, {i}, NoDoc)
    /\ UNCHANGED <<store, genCount>>

\* Collection.save(doc)
OldSave(i, validatorAt) ==
    /\ Tick
    /\ i \in LiveSlots
    /\ genCount + NeedGen(<<docs[i].obj>>) <= MaxGen
    /\ LET s == OldCollection_save(docs, store, genCount, i, "error", validatorAt) IN
         /\ store' = s.store
         /\ genCount' = s.genCount
         /\ result' = Res("Collection.save", s.err, s.stage, None, {i}, NoDoc)
    /\ UNCHANGED docs

\* doc.reference()
Reference(i) ==
    /\ Tick
    /\ i \in LiveSlots
    /\ docs' = Document_reference(docs, i)
    /\ result' = Res("reference", "ok", "done", None, {i}, NoDoc)
    /\ UNCHANGED <<store, genCount>>

\* doc.dereference()
Dereference(i) ==
    /\ Count
    /\ i \in LiveSlots
    /\ LET d == Document_dereference(docs, suite, applications, store, i) IN
         /\ docs' = d.docs
         /\ suite' = d.suite
         /\ result' = Res("dereference", d.err, "done", None, {i}, NoDoc)
    /\ UNCHANGED <<store, genCount, applications, apps>>

\* doc.reference().dereference()
RoundTrip(i) ==
    /\ Count
    /\ i \in LiveSlots
    /\ LET d == Document_dereference(Document_reference(docs, i), suite, applications,
                                     store, i) IN
         /\ docs' = d.docs
         /\ suite' = d.suite
         /\ result' = Res("roundtrip", d.err, "done", None, {i}, NoDoc)
    /\ UNCHANGED <<store, genCount, applications, apps>>

NextRef ==
    \/ \E i \in Slots, o \in OldInputs : OldDoc(i, o)
    \/ \E i \in Slots, j \in Slots : OldSetItem(i, "ref", DocRef(j))
    \/ \E i \in Slots, j \in Slots : OldSetItem(i, "ref", <<"list", DocRef(j), Str("note")>>)
    \/ \E i \in Slots, h \in 0..1 : OldSave(i, h)
    \/ \E i \in Slots : Reference(i)
    \/ \E i \in Slots : Dereference(i)
    \/ \E i \in Slots : RoundTrip(i)
    \/ \E n \in AppNames : NewApplication(n)

SpecRef == InitRef /\ [][NextRef]_vars

-----------------------------------------------------------------------------
\* Class statements: Document classes, Collection classes of both generations.

ClassStep == Step /\ UNCHANGED <<docVars, suiteVars, conv, tables>>

\* What a class statement writes: no attribute, or a mapping with these keys.
NoAttr == [has |-> FALSE, keys |-> {}]
DefinitionsAttrs == {NoAttr, [has |-> TRUE, keys |-> {"addr"}], [has |-> TRUE, keys |-> {"tag"}]}
SchemaAttrs == {NoAttr, [has |-> TRUE, keys |-> {"title"}], [has |-> TRUE, keys |-> {"id"}]}

AttrsOf(c, d, sc) ==
    Attrs(d.has, Fragment(DefKeys, d.keys, c), sc.has, Fragment(SchemaProps, sc.keys, c))

\* class B(A): definitions = ...; schema = ...   (a Document class)
DefineDocument(base, d, sc) ==
    /\ ClassStep
    /\ classes.declared < MaxStatements
    /\ Len(classes.documents) < MaxClasses
    /\ base \in 0..Len(classes.documents)
    /\ classes' = [classes EXCEPT
                     !.documents = Append(@, DocumentMetaclass_call(
                                               classes, base, AttrsOf(classes.declared + 1, d, sc))),
                     !.declared = @ + 1]
    /\ result' = Res("class Document", "ok", "done", None, {Len(classes.documents) + 1}, NoDoc)

\* The definitions of the base of a Collection class statement: Collection
\* itself (0) or the Collection class declared last (1).
BaseDefinitions(cs, base) == IF base = 1 THEN cs.collection.definitions ELSE NoDefinitions

\* class C(Collection): document_class = ...; primary_key = ...
DefineCollection(name, base, d, document_class, pk) ==
    /\ ClassStep
    /\ classes.declared < MaxStatements
    /\ document_class \in {0, Len(classes.documents)}
    /\ base = 1 => classes.collection.name # ""
    /\ \E r \in {CollectionMetaclass_call(classes, classes.declared + 1, name,
                                           BaseDefinitions(classes, base),
                                           AttrsOf(classes.declared + 1, d, NoAttr),
                                           document_class, pk)} :
         /\ classes' = [classes EXCEPT
                          !.collection = IF r.err = "ok" THEN r.class ELSE @,
                          !.declared = @ + 1]
         /\ result' = Res("class Collection", r.err, "done", Str(name), {}, NoDoc)

\* class C(Collection) of sondra/document.py, whose document_class declares
\* the schema properties sc: the class registers with its application.
OldDefineCollection(name, sc, pk) ==
    /\ ClassStep
    /\ \E r \in {OldCollectionMetaclass_init(
                     classes.registry, classes.declared + 1, name,
                     Fragment(SchemaProps, sc.keys, classes.declared + 1), pk)} :
         /\ classes' = [classes EXCEPT
                          !.registry = r.registry,
                          !.old_collection =
                              IF r.err = "ok"
                              THEN [name |-> convert_camelcase(name),
                                    slug |-> camelcase_slugify(name),
                                    properties |-> r.properties,
                                    primary_key |-> effective_primary_key(pk)]
                              ELSE @,
                          !.declared = @ + 1]
         /\ result' = Res("class Collection (old)", r.err, "done", Str(name), {}, NoDoc)

NextClasses ==
    \/ \E b \in 0..MaxClasses, d \in DefinitionsAttrs, sc \in SchemaAttrs : DefineDocument(b, d, sc)
    \/ \E b \in 0..1, d \in DefinitionsAttrs, dc \in 0..MaxClasses, pk \in PrimaryKeys :
          DefineCollection("Users", b, d, dc, pk)

SpecClasses == Init /\ [][NextClasses]_vars

NextRegistry ==
    \E n \in CollNames, sc \in SchemaAttrs, pk \in PrimaryKeys : OldDefineCollection(n, sc, pk)

SpecRegistry == Init /\ [][NextRegistry]_vars

-----------------------------------------------------------------------------
\* The value handlers applied to one value.

HandlerStep == Step /\ UNCHANGED <<docVars, suiteVars, classes, tables>>

InitHandlers ==
    /\ store = [k \in Keys |-> NoRow]
    /\ genCount = 0
    /\ docs = [i \in Slots |-> NoDoc]
    /\ result = Res("init", "ok", "done", None, {}, NoDoc)
    /\ ops = 0
    /\ suite = [instance |-> 0, constructed |-> 0, registry |-> {0}, classes |-> 0,
                returned |-> {}]
    /\ applications = [g \in Slugs |-> 0]
    /\ apps = <<>>
    /\ classes = NoClasses
    /\ conv \in ConvInputs
    /\ tables = NoTables

\* handler.to_python_repr(value)
ToPython ==
    /\ HandlerStep
    /\ conv.err = "ok" /\ Len(conv.trail) < MaxConversions
    /\ conv' = Converted(conv, "to_python_repr", to_python_repr(conv.handler, conv.cur))
    /\ result' = Res("to_python_repr", conv'.err, "done", None, {}, NoDoc)

\* handler.to_json_repr(value)
ToJson ==
    /\ HandlerStep
    /\ conv.err = "ok" /\ Len(conv.trail) < MaxConversions
    /\ conv' = Converted(conv, "to_json_repr", to_json_repr(conv.handler, conv.cur))
    /\ result' = Res("to_json_repr", conv'.err, "done", None, {}, NoDoc)

\* Geometry(*args).to_rql_repr(value)
ToRql ==
    /\ HandlerStep
    /\ conv.handler = "Geometry"
    /\ conv.err = "ok" /\ Len(conv.trail) < MaxConversions
    /\ conv' = Converted(conv, "to_rql_repr", Geometry_to_rql(conv.allowed_types, conv.cur))
    /\ result' = Res("to_rql_repr", conv'.err, "done", None, {}, NoDoc)

\* Time().from_rql_tz(tz)
FromRqlTz(tz) ==
    /\ HandlerStep
    /\ conv.handler = "Time"
    /\ result' = Res("from_rql_tz", "ok", "done", Num(ToString(from_rql_tz(tz))), {}, NoDoc)
    /\ UNCHANGED conv

NextHandlers ==
    \/ ToPython
    \/ ToJson
    \/ ToRql
    \/ \E z \in TimeZones : FromRqlTz(z)

SpecHandlers == InitHandlers /\ [][NextHandlers]_vars

-----------------------------------------------------------------------------
\* Provisioning the store.

TableStep == Step /\ UNCHANGED <<docVars, suiteVars, classes, conv>>

\* The log starts empty at every operation: it holds what that operation
\* logged.
Fresh(tb) == [tb EXCEPT !.log = <<>>]

\* collection.create_table()
CreateTable(t, fault) ==
    /\ TableStep
    /\ tables' = Collection_create_table(Fresh(tables), t, fault).tables
    /\ result' = Res("create_table", Collection_create_table(Fresh(tables), t, fault).err,
                     "done", Str(t), {}, NoDoc)

\* collection.drop_table()
DropTable(t, fault) ==
    /\ TableStep
    /\ tables' = Collection_drop_table(Fresh(tables), t, fault).tables
    /\ result' = Res("drop_table", Collection_drop_table(Fresh(tables), t, fault).err,
                     "done", Str(t), {}, NoDoc)

\* application.create_tables()
CreateTables(fault) ==
    /\ TableStep
    /\ tables' = Application_create_tables(Fresh(tables), 1, fault).tables
    /\ result' = Res("create_tables", Application_create_tables(Fresh(tables), 1, fault).err,
                     "done", None, {}, NoDoc)

\* application.drop_tables()
DropTables(fault) ==
    /\ TableStep
    /\ tables' = Application_drop_tables(Fresh(tables), 1, fault).tables
    /\ result' = Res("drop_tables", Application_drop_tables(Fresh(tables), 1, fault).err,
                     "done", None, {}, NoDoc)

NextTables ==
    \/ \E n \in 1..Len(TableNames), f \in 0..CallsPerCreate : CreateTable(TableNames[n], f)
    \/ \E n \in 1..Len(TableNames), f \in 0..1 : DropTable(TableNames[n], f)
    \/ \E f \in 0..(Len(TableNames) * CallsPerCreate) : CreateTables(f)
    \/ \E f \in 0..Len(TableNames) : DropTables(f)

SpecTables == Init /\ [][NextTables]_vars

-----------------------------------------------------------------------------
\* Properties of the document runtime (Spec)

A1 == Str("A1")
WidgetA1 == Widget(A1)

\* C1: on a collection whose primary key is sku, create({"sku": "A1", "name":
\* "Widget"}) on a store with no row under "A1" returns a Document that is
\* saved and has id "A1", and stores its values under "A1"; get("A1") of that
\* row returns a saved Document with the same property values; delete("A1")
\* removes the row, and get("A1") with no row under "A1" raises KeyError.
C1_CreateGetDelete ==
    [][ /\ (Create(<<WidgetA1>>, 0) /\ store[A1] = NoRow) =>
            /\ result'.err = "ok"
            /\ \E i \in result'.ids :
                 /\ docs'[i].saved
                 /\ Document_id(docs'[i]) = [err |-> "ok", val |-> A1]
                 /\ docs'[i].obj = WidgetA1
            /\ store'[A1] = WidgetA1
        /\ (Get(A1) /\ store[A1] = WidgetA1) =>
            (result'.err = "ok" /\ result'.doc.saved /\ result'.doc.obj = WidgetA1)
        /\ Delete(KeyArg(A1)) => (result'.err = "ok" /\ store'[A1] = NoRow)
        /\ (Get(A1) /\ store[A1] = NoRow) => result'.err = "KeyError"
      ]_vars

\* The created Document is held, its row has been deleted and get("A1") has
\* raised KeyError.
C1_Witness ==
    /\ result.op = "get" /\ result.key = A1 /\ result.err = "KeyError"
    /\ \E i \in Slots : /\ docs[i].live /\ docs[i].saved /\ docs[i].deleted
                        /\ docs[i].obj = WidgetA1

\* C2: d.save() of an unsaved Document d that completes without error leaves
\* d saved, and when d had no primary key the key the store generated is
\* assigned to d: its primary-key property and its url are set from it.
C2_SaveMarksSaved ==
    [][ \A i \in Slots, h \in 0..1 :
          (DocSave(i, h) /\ ~docs[i].saved /\ result'.err = "ok") =>
              /\ docs'[i].saved
              /\ docs[i].obj[primary_key] = Absent =>
                   /\ docs'[i].obj[primary_key] = GenKey(genCount')
                   /\ docs'[i].url = Join(collection_url, GenKey(genCount'))
      ]_vars

\* C3: a Collection.save, Document.save or Collection.create that fails (all
\* its failures come before the store write) leaves every Document as it was:
\* the saved flag and the obj mapping are unchanged.
C3_FailedSaveKeepsDocuments ==
    [][ (result'.op \in {"Collection.save", "Document.save", "create"}
         /\ result'.err # "ok") =>
            \A i \in Slots : /\ docs'[i].saved = docs[i].saved
                             /\ docs'[i].obj = docs[i].obj
      ]_vars

\* C4: when an unsaved Document child was placed in property "ref" of parent,
\* after Collection.save(parent) completes the child is saved and
\* parent.obj["ref"] is the string child.url.
C4_ParentSaveSavesChild ==
    [][ \A i \in Slots, c \in {"error", "replace"} :
          (CollSave(<<i>>, c, 0) /\ docs[i].child # 0 /\ result'.err = "ok") =>
              /\ docs'[docs[i].child].saved
              /\ IsStr(docs'[i].obj["ref"])
              /\ docs'[i].obj["ref"] = Document_url(docs'[docs[i].child], store').val
      ]_vars

\* The keys a Collection.delete argument names: the keys themselves and the
\* primary keys of the Documents.
AddressedKeys(arg) ==
    {arg.list[n][2] : n \in {m \in 1..Len(arg.list) : arg.list[m][1] = "key"}}
    \cup {docs[SlotOf(arg.list[n])].obj[primary_key] :
            n \in {m \in 1..Len(arg.list) : arg.list[m][1] = "doc"}}

\* C7: Document.delete() and Collection.delete(docs), whatever the argument
\* (a saved or unsaved Document, a key, a list, an empty list), leave every
\* row whose key is not the key of a Document or key passed in as it was.
C7_DeleteOnlyAddressed ==
    [][ /\ \A a \in DeleteArgs \ {NoneArg, KeyArg(Str(""))} :
             Delete(a) => \A k \in Keys : k \notin AddressedKeys(a) => store'[k] = store[k]
        /\ \A i \in Slots :
             DocDelete(i) =>
                 \A k \in Keys : k # docs[i].obj[primary_key] => store'[k] = store[k]
      ]_vars

\* C8: once a Document has been deleted, every later save, property set or
\* property delete on it fails with an error, and none of them creates a row.
C8_DeletedIsTerminal ==
    [][ \A i \in Slots :
          (/\ docs[i].deleted
           /\ \/ \E h \in 0..1 : DocSave(i, h)
              \/ \E c \in {"error", "replace"}, h \in 0..1 : CollSave(<<i>>, c, h)
              \/ \E kv \in SetVals : SetItem(i, kv[1], kv[2])
              \/ \E k \in {"name", "ref"} : DelItem(i, k)) =>
              /\ result'.err # "ok"
              /\ \A k \in Keys : store[k] = NoRow => store'[k] = NoRow
      ]_vars

-----------------------------------------------------------------------------
\* Properties of the references (SpecRef)

\* C5: dereference of a string that does not start with the Suite base
\* address, or starts with it but addresses an application, collection or
\* document that is not registered or not present, gives the string back
\* unchanged and raises no error.
C5_DereferenceDegrades ==
    [][ \A i \in Slots :
          Dereference(i) =>
              /\ result'.err = "ok"
              /\ \A p \in Props :
                   (/\ IsStr(docs[i].obj[p])
                    /\ \/ ~StartsWithBase(docs[i].obj[p])
                       \/ get_document(applications, store, docs[i].obj[p]).err # "ok") =>
                       docs'[i].obj[p] = docs[i].obj[p]
      ]_vars

\* A leaf that is neither a Document nor a string under the base address.
PlainLeaf(v) == ~IsDocRef(v) /\ ~StartsWithBase(v)

\* What the round trip must make of the value v of the original: w.
RoundTripped(v, w) ==
    IF IsDocRef(v) THEN IsLive(w) /\ LiveUrl(w) = docs[RefSlot(v)].url
    ELSE w = v

\* C6: for a document whose values are Documents, lists of them and plain
\* values, reference() followed by dereference() completes and yields, for
\* every nested Document d, a live object whose url is d.url; lists keep their
\* structure and the other values are unchanged.
C6_ReferenceRoundTrip ==
    [][ \A i \in Slots :
          (/\ RoundTrip(i)
           /\ \A p \in Props : docs[i].obj[p] # Absent =>
                 \A l \in Leaves(docs[i].obj[p]) : IsDocRef(l) \/ PlainLeaf(l)) =>
              /\ result'.err = "ok"
              /\ \A p \in Props :
                   LET v == docs[i].obj[p]
                       w == docs'[i].obj[p]
                   IN IF v = Absent THEN w = Absent
                      ELSE IF IsList(v)
                      THEN /\ IsList(w) /\ Len(w) = Len(v)
                           /\ \A n \in 2..Len(v) : RoundTripped(v[n], w[n])
                      ELSE RoundTripped(v, w)
      ]_vars

-----------------------------------------------------------------------------
\* Properties of the registries (SpecSuite)

\* C9: every Suite() call returns the same object and the Suite constructor
\* runs at most once, whatever was called before the first application
\* registered.
C9_OneSuiteInstance ==
    Cardinality(suite.returned) <= 1 /\ suite.constructed <= 1

\* C10: an application slug, once registered, keeps naming the application
\* that registered it first; constructing an application whose slug is
\* registered raises SuiteException and leaves the registry as it was; the
\* registered applications have pairwise different slugs.
C10_SlugsUnique ==
    [][ /\ \A g \in Slugs : applications[g] # 0 => applications'[g] = applications[g]
        /\ \A n \in AppNames :
             (NewApplication(n) /\ applications[camelcase_slugify(n)] # 0) =>
                 (result'.err = "SuiteException" /\ applications' = applications)
        /\ \A g \in Slugs : applications'[g] # 0 =>
             (apps'[applications'[g]].slug = g /\ apps'[applications'[g]].registered)
        /\ \A a, b \in 1..Len(apps') :
             (apps'[a].registered /\ apps'[b].registered /\ apps'[a].slug = apps'[b].slug)
                 => a = b
      ]_vars

\* A second application with a registered slug was constructed and refused.
C10_Witness ==
    /\ result.op = "Application" /\ result.err = "SuiteException"
    /\ Cardinality(suite.registry) = 1
    /\ applications[result.key[2]] # 0
    /\ \E a \in 1..Len(apps) : ~apps[a].registered /\ apps[a].slug = result.key[2]

-----------------------------------------------------------------------------
\* Properties of the class statements (SpecRegistry, SpecClasses)

\* C11: a Collection class statement whose slug is already registered with
\* the application raises ApplicationException and leaves the registry as it
\* was, for single-word and multi-word class names alike.
C11_CollectionSlugsUnique ==
    [][ \A n \in CollNames, sc \in SchemaAttrs, pk \in PrimaryKeys :
          (/\ OldDefineCollection(n, sc, pk)
           /\ "id" \notin sc.keys
           /\ classes.registry[camelcase_slugify(n)] # 0) =>
              /\ result'.err = "ApplicationException"
              /\ classes'.registry = classes.registry
      ]_vars

\* C12: a Collection class statement whose document schema declares the
\* property "id" is accepted when the collection's primary key is "id" and
\* raises CollectionException otherwise; with a primary key of None the
\* composed schema gets a synthesized "id" property.
C12_ReservedId ==
    [][ \A b \in 0..1, d \in DefinitionsAttrs, dc \in 1..MaxClasses, pk \in PrimaryKeys :
          DefineCollection("Users", b, d, dc, pk) =>
              /\ (/\ DocumentClass(classes, dc).schema.properties["id"] # 0
                  /\ effective_primary_key(pk) = "id") =>
                     (result'.err = "ok" /\ classes'.collection.properties["id"] # 0)
              /\ (/\ DocumentClass(classes, dc).schema.properties["id"] # 0
                  /\ effective_primary_key(pk) # "id") =>
                     result'.err = "CollectionException"
              /\ (/\ DocumentClass(classes, dc).schema.properties["id"] = 0
                  /\ pk = "None") =>
                     (result'.err = "ok" /\ classes'.collection.properties["id"] # 0)
      ]_vars

\* C13: a class that declares a definition under a key holds its own
\* definition under that key after composition, whatever its base declares
\* there: for Document classes and for Collection classes.
C13_DerivedDefinitionWins ==
    [][ /\ \A b \in 0..MaxClasses, d \in DefinitionsAttrs, sc \in SchemaAttrs :
             DefineDocument(b, d, sc) =>
                 \A k \in d.keys :
                     classes'.documents[Len(classes'.documents)].schema.definitions[k]
                         = classes'.declared
        /\ \A b \in 0..1, d \in DefinitionsAttrs, dc \in 0..MaxClasses, pk \in PrimaryKeys :
             (DefineCollection("Users", b, d, dc, pk) /\ result'.err = "ok") =>
                 \A k \in d.keys : classes'.collection.definitions[k] = classes'.declared
      ]_vars

\* C14: the composed schema of a Document class B(A) holds every property and
\* every definition of A's composed schema that B's class statement does not
\* write itself, whether or not B writes a schema.
C14_SchemaContainment ==
    [][ \A b \in 0..MaxClasses, d \in DefinitionsAttrs, sc \in SchemaAttrs :
          DefineDocument(b, d, sc) =>
              /\ \A q \in SchemaProps \ sc.keys :
                   DocumentClass(classes, b).schema.properties[q] # 0 =>
                       classes'.documents[Len(classes'.documents)].schema.properties[q]
                           = DocumentClass(classes, b).schema.properties[q]
              /\ \A k \in DefKeys \ d.keys :
                   DocumentClass(classes, b).schema.definitions[k] # 0 =>
                       classes'.documents[Len(classes'.documents)].schema.definitions[k]
                           = DocumentClass(classes, b).schema.definitions[k]
      ]_vars

\* C15: a Geometry handler constructed with an allow-list fails to_rql_repr
\* with ValidationError for every GeoJSON value whose type is not a type of
\* the allow-list and converts every value whose type is one (the types
\* compared without regard to letter case); a handler constructed with no
\* allow-list converts every type.
C15_GeometryAllowList ==
    [][ (ToRql /\ IsGeo(conv.cur) /\ conv.cur[2] = "json") =>
            IF conv.args # {} /\ Lower(conv.cur[3]) \notin {Lower(a) : a \in conv.args}
            THEN result'.err = "ValidationError" /\ conv'.cur = conv.cur
            ELSE result'.err = "ok" /\ conv'.cur = Geo("rql", conv.cur[3]) ]_vars

\* Geometry("Point").to_rql_repr({"type": "Polygon", ...}) has raised
\* ValidationError.
C15_Witness ==
    /\ conv.handler = "Geometry" /\ conv.args = {"Point"}
    /\ conv.x = Geo("json", "Polygon")
    /\ conv.trail = <<"to_rql_repr">> /\ conv.err = "ValidationError"
    /\ result.op = "to_rql_repr"

\* C16: from_rql_tz gives the UTC offset in minutes that the timezone string
\* denotes (+(HH*60+MM), -(HH*60+MM), 0 for Z), and to_python_repr of a stored
\* time whose timezone is -05:00 yields a timestamp whose offset is -300.
C16_TimeOffsetRecovery ==
    [][ /\ \A z \in TimeZones :
              FromRqlTz(z) => result'.key = Num(ToString(ZoneMinutes(z)))
        /\ (ToPython /\ conv.cur = Time("rql", "-05:00")) =>
              (result'.err = "ok" /\ conv'.cur = Time("datetime", "-300")) ]_vars

\* C17: for both handlers and every valid x (a geometry object or a stored
\* geography for Geometry, an offset-aware timestamp for Time), each step of
\* to_python_repr(to_json_repr(to_python_repr(x))) completes without error and
\* the result equals to_python_repr(x).
C17_HandlerRoundTrip ==
    (/\ \/ IsGeo(conv.x) /\ conv.x[2] \in {"shape", "rql"}
        \/ IsTime(conv.x) /\ conv.x[2] = "datetime" /\ conv.x[3] # "naive"
     /\ conv.trail # <<>>
     /\ conv.trail = SubSeq(<<"to_python_repr", "to_json_repr", "to_python_repr">>,
                            1, Len(conv.trail))) =>
        /\ conv.err = "ok"
        /\ Len(conv.trail) = 3 => conv.vals[3] = conv.vals[1]

\* C18: create_table with no failure of the store raises no error, whatever
\* was created before, and leaves the collection's table with exactly the
\* declared indexes.
C18_CreateTableIdempotent ==
    [][ \A n \in 1..Len(TableNames) :
          CreateTable(TableNames[n], 0) =>
             /\ result'.err = "ok"
             /\ tables'.db[TableNames[n]].exists
             /\ tables'.db[TableNames[n]].indexes
                    = {indexes[i] : i \in 1..Len(indexes)} ]_vars

\* A create_table whose every store call was refused because the table and
\* its indexes exist already.
C18_Witness ==
    /\ result.op = "create_table" /\ result.err = "ok" /\ result.key = Str("users")
    /\ tables.log = <<"ReqlOpFailedError", "ReqlOpFailedError", "ReqlOpFailedError">>
    /\ tables.db["users"].exists
    /\ tables.db["users"].indexes = {"name", "loc"}

\* C19: drop_table with no failure of the store raises no error, whether the
\* table exists or not, and afterwards the table does not exist.
C19_DropTableIdempotent ==
    [][ \A n \in 1..Len(TableNames) :
          DropTable(TableNames[n], 0) =>
             /\ result'.err = "ok"
             /\ ~tables'.db[TableNames[n]].exists ]_vars

\* C20: an error of the store other than "already exists" in a table-create
\* or index-create call of create_table or create_tables reaches the caller.
C20_OtherErrorsPropagate ==
    [][ /\ \A n \in 1..Len(TableNames), f \in 1..CallsPerCreate :
              CreateTable(TableNames[n], f) => result'.err = "ReqlDriverError"
        /\ \A f \in 1..(Len(TableNames) * CallsPerCreate) :
              CreateTables(f) => result'.err = "ReqlDriverError" ]_vars

\* C21: collection[key] = value with a schema-valid value returns without
\* error, and afterwards the store holds under key the row of value's content
\* with its primary key forced to key, which get(key) returns.
C21_CollectionSet ==
    [][ \A k \in UserKeys, a \in SetItemArgs :
          (/\ CollSetItem(k, a, 0)
           /\ Validate(_to_json_repr(
                  [(IF a.kind = "doc" THEN docs[a.i].obj ELSE a.val)
                      EXCEPT ![primary_key] = k]))
           /\ _to_rql_repr(_to_json_repr(
                  [(IF a.kind = "doc" THEN docs[a.i].obj ELSE a.val)
                      EXCEPT ![primary_key] = k])).err = "ok") =>
              /\ result'.err = "ok"
              /\ store'[k] = _to_rql_repr(_to_json_repr(
                     [(IF a.kind = "doc" THEN docs[a.i].obj ELSE a.val)
                         EXCEPT ![primary_key] = k])).val
              /\ Collection_getitem(store', k).err = "ok" ]_vars

\* C22: whenever create(value), value one mapping, returns a Document, the
\* Document is saved and the store holds under its primary key the row of its
\* content, whatever the store held before.
C22_CreatedIsStored ==
    [][ \A o \in Inputs, h \in 0..1 :
          (Create(<<o>>, h) /\ result'.err = "ok") =>
             \A i \in result'.ids :
                /\ docs'[i].saved
                /\ docs'[i].obj[primary_key] \in Keys
                /\ store'[docs'[i].obj[primary_key]]
                       = _to_rql_repr(_to_json_repr(docs'[i].obj)).val ]_vars

\* C23: Collection.save collapses the nested Documents of each value to their
\* urls, converts to wire shape, validates against the schema, runs the
\* validator hook, converts to storage shape and writes, in this order: a
\* value that holds a Document is written with the Document's url in its
\* place, a failure is the failure of the earliest failing step, and the
\* store changes only when every step before the write has completed.
C23_SaveStepOrder ==
    [][ /\ \A o \in Inputs, j \in Slots :
             (/\ CollSaveMapping(o, j, 0)
              /\ docs[j].url # None
              /\ Validate(_to_json_repr([o EXCEPT !["ref"] = docs[j].url]))
              /\ _to_rql_repr(_to_json_repr(o)).err = "ok") =>
                 /\ result'.err = "ok"
                 /\ \E k \in Keys : store'[k] # NoRow /\ store'[k]["ref"] = docs[j].url
        /\ \A i \in Slots, c \in {"error", "replace"}, h \in 0..1 :
             CollSave(<<i>>, c, h) =>
                /\ store' # store => result'.stage = "done"
                /\ result'.stage =
                      IF ~Validate(_to_json_repr(docs[i].obj)) THEN "schema"
                      ELSE IF h = 1 THEN "validator"
                      ELSE IF _to_rql_repr(_to_json_repr(docs[i].obj)).err # "ok" THEN "rql"
                      ELSE "done" ]_vars

\* C24: a child Document that auto-persist has written once is not saved
\* again: placing it in a property afterwards only stores its url, without
\* running save (its validator hook, its conversions, its insert) on it.
C24_AutoPersistOnce ==
    [][ \A i \in Slots, j \in Slots, h \in 0..1 :
          (/\ SetRef(i, "ref", j, h)
           /\ i # j
           /\ \E p \in LiveSlots \ {j} : docs[p].child = j
           /\ docs[j].obj[primary_key] \in Keys
           /\ store[docs[j].obj[primary_key]] # NoRow) =>
              /\ result'.err = "ok"
              /\ store' = store
              /\ docs'[j].obj = docs[j].obj
              /\ docs'[i].obj["ref"] = docs[j].url ]_vars

\* C25: each of _to_python_repr, _to_json_repr and _to_rql_repr leaves the key
\* set of the mapping and the value of every property that is no special or
\* is not in the mapping as they are, raises nothing for a special that is
\* not in the mapping, and gives a special that is in the mapping the value
\* its handler makes of it.
C25_PartialConversion ==
    [][ /\ (ToJsonRepr \/ ToRqlRepr \/ ToPythonRepr) =>
             \A p \in Props :
                /\ (docs'[1].obj[p] = Absent) <=> (docs[1].obj[p] = Absent)
                /\ (p \notin specials \/ docs[1].obj[p] = Absent) =>
                       docs'[1].obj[p] = docs[1].obj[p]
                /\ (\A q \in specials : docs[1].obj[q] = Absent) => result'.err = "ok"
        /\ ToJsonRepr =>
             \A p \in specials : docs[1].obj[p] # Absent =>
                docs'[1].obj[p] = Geometry_to_json_repr(docs[1].obj[p])
        /\ (ToRqlRepr /\ result'.err = "ok") =>
             \A p \in specials : docs[1].obj[p] # Absent =>
                docs'[1].obj[p] = Geometry_to_rql(Geometry_init({"Point"}), docs[1].obj[p]).val
        /\ (ToPythonRepr /\ result'.err = "ok") =>
             \A p \in specials : docs[1].obj[p] # Absent =>
                docs'[1].obj[p] = Geometry_to_python_repr(docs[1].obj[p]).val ]_vars

\* _to_rql_repr has turned the GeoJSON Point of "loc" into its storage shape
\* and left a name that is no string as it was.
C25_Witness ==
    /\ result.op = "_to_rql_repr" /\ result.err = "ok"
    /\ docs[1].obj["loc"] = Geo("rql", "Point")
    /\ docs[1].obj["name"] = Num("7")
    /\ docs[1].obj["sku"] = Absent

\* C26: the url of every Document whose primary-key property is in obj is
\* the collection's url joined with the value of that property.
C26_UrlTracksKey ==
    \A i \in LiveSlots :
        docs[i].obj[primary_key] # Absent =>
            /\ Document_url(docs[i], store).err = "ok"
            /\ Document_url(docs[i], store).val
                   = Join(collection_url, docs[i].obj[primary_key])

\* C27: once two never-saved Documents reference each other (each was placed
\* in the other while unsaved), saving one of them does not return: it ends in
\* the interpreter's RecursionError.
C27_CyclePolicy ==
    [][ \A i \in Slots, h \in 0..1 :
          (/\ DocSave(i, h) \/ \E c \in {"error", "replace"} : CollSave(<<i>>, c, h)
           /\ docs[i].child \in Slots \ {i}
           /\ docs[docs[i].child].child = i
           /\ ~docs[i].saved /\ ~docs[docs[i].child].saved) =>
              result'.err = "RecursionError" ]_vars

\* C27 as amended: placing a Document and saving a Document return for every
\* graph of never-saved Documents, a cycle included.  A save ends at one of
\* its own steps, writes at most the row of the Document saved and changes
\* no other Document; a placement ends at a step of the one save it runs.
C27_SaveTerminates ==
    [][ /\ \A i \in Slots, h \in 0..1 :
             (DocSave(i, h) \/ \E c \in {"error", "replace"} : CollSave(<<i>>, c, h)) =>
                /\ result'.err # "RecursionError"
                /\ result'.stage \in {"done", "schema", "validator", "rql"}
                /\ \A j \in Slots \ {i} : docs'[j] = docs[j]
                /\ \A k \in Keys :
                      store'[k] # store[k] =>
                         \/ k = docs[i].obj[primary_key]
                         \/ docs[i].obj[primary_key] = Absent /\ store[k] = NoRow
        /\ \A i \in Slots, j \in Slots, h \in 0..1 :
             SetRef(i, "ref", j, h) =>
                /\ result'.err # "RecursionError"
                /\ result'.stage \in {"done", "schema", "validator", "rql", "id", "url"}
                /\ \A q \in Slots \ {i, j} : docs'[q] = docs[q] ]_vars

\* Document 1 has been saved, and has returned, while it and Document 2,
\* neither ever marked saved, hold each other's url.
C27_Witness ==
    /\ result.op = "Document.save" /\ result.err = "ok" /\ result.ids = {1}
    /\ docs[1].child = 2 /\ docs[2].child = 1
    /\ ~docs[1].saved /\ ~docs[2].saved
    /\ docs[1].obj["ref"] = docs[2].url /\ docs[2].obj["ref"] = docs[1].url

\* C28: after create(list) has returned, the id of every Document of the
\* list is the key its row was stored under: its own key for a mapping that
\* had one (which it keeps), the generated key for a mapping that had none.
C28_GeneratedKeysAssigned ==
    [][ \A b \in Batches, h \in 0..2 :
          (Create(b, h) /\ Len(b) = 2 /\ result'.err = "ok") =>
             \A n \in 1..Len(b) :
                /\ Document_id(docs'[Alloc(FreeSlots, Len(b))[n]]).err = "ok"
                /\ Document_id(docs'[Alloc(FreeSlots, Len(b))[n]]).val
                       = IF b[n][primary_key] # Absent THEN b[n][primary_key]
                         ELSE GenKey(genCount + 1) ]_vars

\* C29: when save or create is given a list and a document of the list fails
\* schema validation, the validator hook or the storage conversion, the store
\* is as it was and no document of the list has become saved.
C29_BatchAllOrNothing ==
    [][ /\ \A l \in SlotLists, c \in {"error", "replace"}, h \in 0..2 :
             (CollSave(l, c, h) /\ Len(l) = 2 /\ l[1] # l[Len(l)] /\ result'.err # "ok") =>
                /\ store' = store
                /\ \A n \in 1..Len(l) : docs'[l[n]].saved = docs[l[n]].saved
        /\ \A b \in Batches, h \in 0..2 :
             (Create(b, h) /\ Len(b) = 2 /\ result'.err # "ok") =>
                /\ store' = store
                /\ \A i \in Slots : docs'[i].saved = docs[i].saved ]_vars

====
